---- MODULE Spec2Model ----
(***************************************************************************)
(* Model of SchedulingProblem (src/workers.py): the evaluator of a nurse   *)
(* roster encoded as a flat list of 0/1 values.  The object's fields are   *)
(* the state; every public method is one action whose result is stored in  *)
(* ret.  Python indices are 0-based: position i of a Python list is        *)
(* element i + 1 of the sequence that models it.                           *)
(***************************************************************************)
EXTENDS Integers, Sequences, FiniteSets, TLC

VARIABLES
    hardConstraintPenalty, \* self.hardConstraintPenalty
    workers,               \* self.workers
    shiftPreference,       \* self.shiftPreference
    shiftMin,              \* self.shiftMin
    shiftMax,              \* self.shiftMax
    maxShiftsPerWeek,      \* self.maxShiftsPerWeek
    weeks,                 \* self.weeks
    shiftPerDay,           \* self.shiftPerDay
    shiftsPerWeek,         \* self.shiftsPerWeek
    schedule,              \* the caller's roster, the argument of every call
    ret,                   \* what the last call returned, raised or printed
    firstCost,             \* the value the caller's first getCost returned
    between                \* a call other than getCost followed that first one

config == <<hardConstraintPenalty, workers, shiftPreference, shiftMin, shiftMax,
            maxShiftsPerWeek, weeks, shiftPerDay, shiftsPerWeek>>

vars == <<hardConstraintPenalty, workers, shiftPreference, shiftMin, shiftMax,
          maxShiftsPerWeek, weeks, shiftPerDay, shiftsPerWeek, schedule, ret,
          firstCost, between>>

(***************************************************************************)
(* Bounds of the model.                                                    *)
(***************************************************************************)
MaxWeeks == 2      \* weeks ranges over 1..MaxWeeks
MaxBlock == 3      \* a roster block covers up to MaxBlock workers and slots
MaxDelta == 1      \* a mis-sized roster is at most this much too short/long

(***************************************************************************)
(* Python built-ins used by the code.                                      *)
(***************************************************************************)
Min(a, b) == IF a < b THEN a ELSE b

\* A list built by a loop or a comprehension: its elements are computed
\* once, when the list is built, not at every later use.
List(f) == f \o << >>

\* s[a:b] for 0 <= a, 0 <= b: the bounds are clipped to the list.
Slice(s, a, b) ==
    LET hi == Min(b, Len(s))
    IN  IF a >= hi THEN << >> ELSE SubSeq(s, a + 1, hi)

\* s[a:b:step] for 0 <= a, 0 <= b, step > 0.
SliceStep(s, a, b, step) ==
    LET hi == Min(b, Len(s))
        n  == IF a >= hi THEN 0 ELSE ((hi - a - 1) \div step) + 1
    IN  List([j \in 1..n |-> s[a + (j - 1) * step + 1]])

\* lst * n for a list: n copies of lst one after the other.
Repeat(lst, n) ==
    List([j \in 1..(Len(lst) * n) |-> lst[((j - 1) % Len(lst)) + 1]])

\* sum(s)
RECURSIVE SumFrom(_, _)
SumFrom(s, k) == IF k > Len(s) THEN 0 ELSE s[k] + SumFrom(s, k + 1)

sum(s) == SumFrom(s, 1)

\* the length of the shortest of the lists (what zip stops at)
RECURSIVE MinLenFrom(_, _)
MinLenFrom(lists, i) ==
    IF i = Len(lists) THEN Len(lists[i])
    ELSE Min(Len(lists[i]), MinLenFrom(lists, i + 1))

(***************************************************************************)
(* SchedulingProblem                                                       *)
(***************************************************************************)

\* __len__
Length == Len(workers) * shiftsPerWeek * weeks

\* getWorkerShifts: the dictionary worker -> its slice of the schedule.
\* shiftIndex is i * shiftsPerWorker when the loop reaches the worker at
\* (0-based) index i.
getWorkerShifts(sched) ==
    LET shiftsPerWorker == Length \div Len(workers)
        chunk(i) == Slice(sched, i * shiftsPerWorker,
                          i * shiftsPerWorker + shiftsPerWorker)
    IN  [w \in {workers[i] : i \in 1..Len(workers)} |->
            chunk((CHOOSE i \in 1..Len(workers) : workers[i] = w) - 1)]

\* workersShiftsDict.values(): the slices in insertion order, which is the
\* order of self.workers.
values(workersShiftsDict) ==
    List([i \in 1..Len(workers) |-> workersShiftsDict[workers[i]]])

\* the inner loop of countConsecutiveShiftViolations over one worker:
\* zip(workerShifts, workerShifts[1:]) pairs position k with k + 1.
RECURSIVE ConsecutiveFrom(_, _)
ConsecutiveFrom(workerShifts, k) ==
    IF k >= Len(workerShifts) THEN 0
    ELSE (IF workerShifts[k] = 1 /\ workerShifts[k + 1] = 1 THEN 1 ELSE 0)
         + ConsecutiveFrom(workerShifts, k + 1)

RECURSIVE ConsecutiveWorkersFrom(_, _)
ConsecutiveWorkersFrom(vals, i) ==
    IF i > Len(vals) THEN 0
    ELSE ConsecutiveFrom(vals[i], 1) + ConsecutiveWorkersFrom(vals, i + 1)

\* mutant of countConsecutiveShiftViolations: the pairs of the flat schedule,
\* that is, also the last slot of a worker with the first slot of the next
RECURSIVE StraddlingFrom(_, _)
StraddlingFrom(vals, i) ==
    IF i >= Len(vals) THEN 0
    ELSE (IF /\ Len(vals[i]) > 0 /\ Len(vals[i + 1]) > 0
             /\ vals[i][Len(vals[i])] = 1 /\ vals[i + 1][1] = 1
          THEN 1 ELSE 0)
         + StraddlingFrom(vals, i + 1)

countConsecutiveShiftViolations_flat(workersShiftsDict) ==
    ConsecutiveWorkersFrom(values(workersShiftsDict), 1)
    + StraddlingFrom(values(workersShiftsDict), 1)

countConsecutiveShiftViolations(workersShiftsDict) ==
    ConsecutiveWorkersFrom(values(workersShiftsDict), 1)

\* countShiftsPerWeekViolations: <<weeklyShiftsList, violations>>.  Week j
\* (0-based) of a worker is the slice [j * shiftsPerWeek, (j+1) * shiftsPerWeek).
weeklyShifts(workerShifts, j) ==
    sum(Slice(workerShifts, j * shiftsPerWeek, j * shiftsPerWeek + shiftsPerWeek))

RECURSIVE WeekViolationsFrom(_, _)
WeekViolationsFrom(lst, k) ==
    IF k > Len(lst) THEN 0
    ELSE (IF lst[k] > maxShiftsPerWeek THEN lst[k] - maxShiftsPerWeek ELSE 0)
         + WeekViolationsFrom(lst, k + 1)

countShiftsPerWeekViolations(workersShiftsDict) ==
    LET vals == values(workersShiftsDict)
        weeklyShiftsList ==
            List([k \in 1..(Len(vals) * weeks) |->
                weeklyShifts(vals[((k - 1) \div weeks) + 1], (k - 1) % weeks)])
    IN  <<weeklyShiftsList, WeekViolationsFrom(weeklyShiftsList, 1)>>

\* countWorkersPerShiftViolations: <<totalPerShiftList, violations>>.
RECURSIVE ColumnFrom(_, _, _)
ColumnFrom(vals, s, i) ==
    IF i > Len(vals) THEN 0 ELSE vals[i][s] + ColumnFrom(vals, s, i + 1)

\* mutants of perShiftViolation: no under-staffing branch; one violation per
\* under-staffed slot; one violation per over-staffed slot
perShiftViolation_noUnder(shiftIndex, numOfWorkers) ==
    LET dailyShiftIndex == shiftIndex % shiftPerDay
    IN  IF numOfWorkers > shiftMax[dailyShiftIndex + 1]
        THEN numOfWorkers - shiftMax[dailyShiftIndex + 1]
        ELSE 0

perShiftViolation_flatUnder(shiftIndex, numOfWorkers) ==
    LET dailyShiftIndex == shiftIndex % shiftPerDay
    IN  IF numOfWorkers > shiftMax[dailyShiftIndex + 1]
        THEN numOfWorkers - shiftMax[dailyShiftIndex + 1]
        ELSE IF numOfWorkers < shiftMin[dailyShiftIndex + 1] THEN 1 ELSE 0

perShiftViolation_flatOver(shiftIndex, numOfWorkers) ==
    LET dailyShiftIndex == shiftIndex % shiftPerDay
    IN  IF numOfWorkers > shiftMax[dailyShiftIndex + 1]
        THEN 1
        ELSE IF numOfWorkers < shiftMin[dailyShiftIndex + 1]
             THEN shiftMin[dailyShiftIndex + 1] - numOfWorkers
             ELSE 0

perShiftViolation(shiftIndex, numOfWorkers) ==
    LET dailyShiftIndex == shiftIndex % shiftPerDay
    IN  IF numOfWorkers > shiftMax[dailyShiftIndex + 1]
        THEN numOfWorkers - shiftMax[dailyShiftIndex + 1]
        ELSE IF numOfWorkers < shiftMin[dailyShiftIndex + 1]
             THEN shiftMin[dailyShiftIndex + 1] - numOfWorkers
             ELSE 0

RECURSIVE PerShiftViolationsFrom(_, _)
PerShiftViolationsFrom(lst, k) ==
    IF k > Len(lst) THEN 0
    ELSE perShiftViolation(k - 1, lst[k]) + PerShiftViolationsFrom(lst, k + 1)

countWorkersPerShiftViolations(workersShiftsDict) ==
    LET vals == values(workersShiftsDict)
        n == IF Len(vals) = 0 THEN 0 ELSE MinLenFrom(vals, 1)
        totalPerShiftList == List([s \in 1..n |-> ColumnFrom(vals, s, 1)])
    IN  <<totalPerShiftList, PerShiftViolationsFrom(totalPerShiftList, 1)>>

\* countShiftPreferenceViolations
RECURSIVE PreferenceFrom(_, _, _)
PreferenceFrom(preference, shifts, k) ==
    IF k > Min(Len(preference), Len(shifts)) THEN 0
    ELSE (IF preference[k] = 0 /\ shifts[k] = 1 THEN 1 ELSE 0)
         + PreferenceFrom(preference, shifts, k + 1)

RECURSIVE PreferenceWorkersFrom(_, _)
PreferenceWorkersFrom(workersShiftsDict, workerIndex) ==
    IF workerIndex >= Len(shiftPreference) THEN 0
    ELSE LET preference == Repeat(shiftPreference[workerIndex + 1],
                                  shiftsPerWeek \div shiftPerDay)
             shifts == workersShiftsDict[workers[workerIndex + 1]]
         IN  PreferenceFrom(preference, shifts, 1)
             + PreferenceWorkersFrom(workersShiftsDict, workerIndex + 1)

countShiftPreferenceViolations(workersShiftsDict) ==
    PreferenceWorkersFrom(workersShiftsDict, 0)

\* countCompetenceViolations
RECURSIVE OnesFrom(_, _)
OnesFrom(s, k) ==
    IF k > Len(s) THEN 0
    ELSE (IF s[k] = 1 THEN 1 ELSE 0) + OnesFrom(s, k + 1)

\* mutant of CompetenceFrom: the cutoff one worker too early
RECURSIVE CompetenceFrom_cutoff(_, _)
CompetenceFrom_cutoff(vals, workerIndex) ==
    IF workerIndex >= Len(vals) THEN 0
    ELSE LET nightShifts == SliceStep(vals[workerIndex + 1], 2, 30, 3)
         IN  (IF workerIndex >= 4 THEN OnesFrom(nightShifts, 1) ELSE 0)
             + CompetenceFrom_cutoff(vals, workerIndex + 1)

RECURSIVE CompetenceFrom(_, _)
CompetenceFrom(vals, workerIndex) ==
    IF workerIndex >= Len(vals) THEN 0
    ELSE LET nightShifts == SliceStep(vals[workerIndex + 1], 2, 30, 3)
         IN  (IF workerIndex > 4 THEN OnesFrom(nightShifts, 1) ELSE 0)
             + CompetenceFrom(vals, workerIndex + 1)

countCompetenceViolations(workersShiftsDict) ==
    CompetenceFrom(values(workersShiftsDict), 0)

\* getCost, from the counters on: the violations of the decomposed schedule
\* and their weighted sum.
violationsCost_softScaled(workersShiftsDict) ==
    hardConstraintPenalty
        * (countConsecutiveShiftViolations(workersShiftsDict)
           + countWorkersPerShiftViolations(workersShiftsDict)[2]
           + countShiftsPerWeekViolations(workersShiftsDict)[2]
           + countCompetenceViolations(workersShiftsDict)
           + countShiftPreferenceViolations(workersShiftsDict))

violationsCost(workersShiftsDict) ==
    LET consecutiveShiftViolations ==
            countConsecutiveShiftViolations(workersShiftsDict)
        shiftsPerWeekViolations ==
            countShiftsPerWeekViolations(workersShiftsDict)[2]
        workersPerShiftViolations ==
            countWorkersPerShiftViolations(workersShiftsDict)[2]
        shiftPreferenceViolations ==
            countShiftPreferenceViolations(workersShiftsDict)
        competenceViolations ==
            countCompetenceViolations(workersShiftsDict)
        hardContstraintViolations ==
            consecutiveShiftViolations + workersPerShiftViolations
            + shiftsPerWeekViolations + competenceViolations
        softContstraintViolations == shiftPreferenceViolations
    IN  hardConstraintPenalty * hardContstraintViolations
        + softContstraintViolations

CounterCalls ==
    <<"getWorkerShifts", "countConsecutiveShiftViolations",
      "countShiftsPerWeekViolations", "countWorkersPerShiftViolations",
      "countShiftPreferenceViolations", "countCompetenceViolations">>

\* getCost: the size check, then the decomposition and the counters.  calls
\* lists the methods getCost invoked after the size check.
getCost_acceptsLonger(sched) ==
    IF Len(sched) < Length
    THEN [raised |-> "ValueError", calls |-> << >>, value |-> << >>]
    ELSE [raised |-> "none", calls |-> CounterCalls,
          value |-> <<violationsCost(getWorkerShifts(sched))>>]

getCost(sched) ==
    IF Len(sched) # Length
    THEN [raised |-> "ValueError", calls |-> << >>, value |-> << >>]
    ELSE [raised |-> "none", calls |-> CounterCalls,
          value |-> <<violationsCost(getWorkerShifts(sched))>>]

\* printScheduleInfo: what it prints, in order; it returns nothing and has
\* no size check.
printScheduleInfo(sched) ==
    LET workersShiftsDict == getWorkerShifts(sched)
        perWeek == countShiftsPerWeekViolations(workersShiftsDict)
        perShift == countWorkersPerShiftViolations(workersShiftsDict)
    IN  [schedule |-> workersShiftsDict,
         consecutive |-> countConsecutiveShiftViolations(workersShiftsDict),
         weeklyShifts |-> perWeek[1],
         shiftsPerWeek |-> perWeek[2],
         workersPerShift |-> perShift[1],
         workersPerShiftViolations |-> perShift[2],
         shiftPreference |-> countShiftPreferenceViolations(workersShiftsDict),
         competence |-> countCompetenceViolations(workersShiftsDict)]

(***************************************************************************)
(* The rosters the caller evaluates: lists of 0/1 values.                  *)
(***************************************************************************)

\* The base value b everywhere but in one block of 1 - b: for the workers
\* w1..w2, the cnt slots p0, p0 + step, ... of each one's sub-sequence.
Block(len, perWorker, b, w1, w2, p0, step, cnt) ==
    List([i \in 1..len |->
        LET w == (i - 1) \div perWorker
            p == (i - 1) % perWorker
        IN  IF /\ w >= w1 /\ w <= w2
               /\ p >= p0 /\ (p - p0) % step = 0 /\ (p - p0) \div step < cnt
            THEN 1 - b ELSE b])

\* 0 everywhere but at the cnt flat positions start, start + 1, ...
FlatRun(len, start, cnt) ==
    List([i \in 1..len |-> IF i - 1 >= start /\ i - 1 < start + cnt THEN 1 ELSE 0])

\* r made d elements longer (d > 0, the extra elements are 1) or shorter.
Resize(r, d) ==
    IF d >= 0 THEN r \o [j \in 1..d |-> 1] ELSE SubSeq(r, 1, Len(r) + d)

\* Slots a block starts at: the first slot, the night slot before a day
\* boundary, the last slot of week one, and two night slots of week two
\* (inside and outside [2:30:3]).
Starts(perWorker) == {p \in {0, 2, 20, 23, 32} : p < perWorker}

Uniform(wk) == {Block(210 * wk, 21 * wk, b, 0, 0, 0, 1, 0) : b \in {0, 1}}

SizedRosters(wk) ==
    LET perWorker == 21 * wk
        len == 10 * perWorker
    IN  Uniform(wk)
        \* k workers, from A or from F on, on k slots in a row
        \cup {Block(len, perWorker, 0, w1, w1 + k - 1, p0, 1, k) :
                w1 \in {0, 5}, k \in 1..MaxBlock, p0 \in Starts(perWorker)}
        \* one worker on one shift type (or off it) on every day of k weeks
        \cup {Block(len, perWorker, 0, w, w, t, 3, 7 * k) :
                w \in {0, 4, 5}, t \in 0..2, k \in 1..wk}
        \* the last slot of one worker and the first slot of the next
        \cup {FlatRun(len, w * perWorker - 1, 2) : w \in {1, 5}}

MisSizedRosters(wk) ==
    LET perWorker == 21 * wk
        len == 10 * perWorker
    IN  {Resize(r, d) :
            r \in Uniform(wk) \cup {Block(len, perWorker, 0, 8, 9, 1, 1, 20)},
            d \in (-MaxDelta..MaxDelta) \ {0}}

Rosters(wk) == SizedRosters(wk) \cup MisSizedRosters(wk)

\* hardConstraintPenalty: main() passes 10; the uniform rosters are also
\* evaluated under other penalties.
Inputs(wk) == ({10} \X Rosters(wk)) \cup ({0, 1} \X Uniform(wk))

(***************************************************************************)
(* __init__ and the calls.                                                 *)
(***************************************************************************)
Init ==
    /\ workers = <<"A", "B", "C", "D", "E", "F", "G", "H", "I", "J">>
    /\ shiftPreference = << <<1, 0, 0>>, <<1, 1, 0>>, <<0, 0, 1>>, <<0, 1, 0>>,
                            <<0, 0, 1>>, <<1, 1, 1>>, <<0, 1, 1>>, <<1, 1, 1>>,
                            <<1, 0, 0>>, <<0, 1, 0>> >>
    /\ shiftMin = <<2, 2, 1>>
    /\ shiftMax = <<3, 4, 2>>
    /\ maxShiftsPerWeek = 5
    \* __init__ sets weeks = 1; it is the number of weeks the schedule is
    \* created for, which the methods read through self.weeks, and the class
    \* is evaluated for each value 1..MaxWeeks.
    /\ weeks \in 1..MaxWeeks
    /\ shiftPerDay = 3
    /\ shiftsPerWeek = 7 * 3
    /\ \E in \in Inputs(weeks) :
          /\ hardConstraintPenalty = in[1]
          /\ schedule = in[2]
    /\ ret = [op |-> "__init__", raised |-> "none", calls |-> << >>,
              value |-> << >>, printed |-> << >>]
    /\ firstCost = << >>
    /\ between = FALSE

Returned(op, v) ==
    [op |-> op, raised |-> "none", calls |-> << >>, value |-> <<v>>,
     printed |-> << >>]

\* cost = problem.getCost(schedule)
GetCost ==
    LET r == getCost(schedule)
    IN  /\ ret' = [op |-> "getCost", raised |-> r.raised, calls |-> r.calls,
                   value |-> r.value, printed |-> << >>]
        /\ firstCost' = IF firstCost = << >> THEN r.value ELSE firstCost
        /\ UNCHANGED <<config, schedule, between>>

\* problem.printScheduleInfo(schedule)
PrintScheduleInfo ==
    /\ ret' = [op |-> "printScheduleInfo", raised |-> "none", calls |-> << >>,
               value |-> << >>, printed |-> <<printScheduleInfo(schedule)>>]
    /\ between' = (firstCost # << >>)
    /\ UNCHANGED <<config, schedule, firstCost>>

\* d = problem.getWorkerShifts(schedule)
GetWorkerShifts ==
    /\ ret' = Returned("getWorkerShifts", getWorkerShifts(schedule))
    /\ between' = (firstCost # << >>)
    /\ UNCHANGED <<config, schedule, firstCost>>

\* The counters take a dictionary: the one getWorkerShifts just returned.
HaveDict == ret.op = "getWorkerShifts"

CountConsecutiveShiftViolations ==
    /\ HaveDict
    /\ ret' = Returned("countConsecutiveShiftViolations",
                       countConsecutiveShiftViolations(ret.value[1]))
    /\ between' = (firstCost # << >>)
    /\ UNCHANGED <<config, schedule, firstCost>>

CountShiftsPerWeekViolations ==
    /\ HaveDict
    /\ ret' = Returned("countShiftsPerWeekViolations",
                       countShiftsPerWeekViolations(ret.value[1]))
    /\ between' = (firstCost # << >>)
    /\ UNCHANGED <<config, schedule, firstCost>>

CountWorkersPerShiftViolations ==
    /\ HaveDict
    /\ ret' = Returned("countWorkersPerShiftViolations",
                       countWorkersPerShiftViolations(ret.value[1]))
    /\ between' = (firstCost # << >>)
    /\ UNCHANGED <<config, schedule, firstCost>>

\* mutant of CountShiftPreferenceViolations: the tiled preferences are stored
\* back into self.shiftPreference
CountShiftPreferenceViolations_inPlace ==
    /\ HaveDict
    /\ ret' = Returned("countShiftPreferenceViolations",
                       countShiftPreferenceViolations(ret.value[1]))
    /\ shiftPreference' =
           [i \in 1..Len(shiftPreference) |->
               Repeat(shiftPreference[i], shiftsPerWeek \div shiftPerDay)]
    /\ between' = (firstCost # << >>)
    /\ UNCHANGED <<hardConstraintPenalty, workers, shiftMin, shiftMax,
                   maxShiftsPerWeek, weeks, shiftPerDay, shiftsPerWeek,
                   schedule, firstCost>>

CountShiftPreferenceViolations ==
    /\ HaveDict
    /\ ret' = Returned("countShiftPreferenceViolations",
                       countShiftPreferenceViolations(ret.value[1]))
    /\ between' = (firstCost # << >>)
    /\ UNCHANGED <<config, schedule, firstCost>>

CountCompetenceViolations ==
    /\ HaveDict
    /\ ret' = Returned("countCompetenceViolations",
                       countCompetenceViolations(ret.value[1]))
    /\ between' = (firstCost # << >>)
    /\ UNCHANGED <<config, schedule, firstCost>>

Next ==
    \/ GetCost
    \/ PrintScheduleInfo
    \/ GetWorkerShifts
    \/ CountConsecutiveShiftViolations
    \/ CountShiftsPerWeekViolations
    \/ CountWorkersPerShiftViolations
    \/ CountShiftPreferenceViolations
    \/ CountCompetenceViolations

Spec == Init /\ [][Next]_vars

(***************************************************************************)
(* The properties.  A roster position is named by the worker's 0-based     *)
(* index w in the configuration and the 0-based position p inside that     *)
(* worker's sub-sequence.                                                  *)
(***************************************************************************)
NumWorkers == Len(workers)
SubSeqLen == 7 * 3 * weeks
Sized == Len(schedule) = NumWorkers * SubSeqLen
At(w, p) == schedule[w * SubSeqLen + p + 1]
WorkerIdx == 0..(NumWorkers - 1)
Positions == 0..(SubSeqLen - 1)
Ones == Cardinality({i \in 1..Len(schedule) : schedule[i] = 1})
AllZero == Sized /\ \A i \in 1..Len(schedule) : schedule[i] = 0
AllOnes == Sized /\ \A i \in 1..Len(schedule) : schedule[i] = 1

Printing == ret.op = "printScheduleInfo"
Report == ret.printed[1]

\* what the last call reported for each counter, when it reported one
ConsecutiveSeen == ret.op = "countConsecutiveShiftViolations" \/ Printing
ConsecutiveVal == IF Printing THEN Report.consecutive ELSE ret.value[1]
WeeklySeen == ret.op = "countShiftsPerWeekViolations" \/ Printing
WeeklyList == IF Printing THEN Report.weeklyShifts ELSE ret.value[1][1]
WeeklyVal == IF Printing THEN Report.shiftsPerWeek ELSE ret.value[1][2]
PerShiftSeen == ret.op = "countWorkersPerShiftViolations" \/ Printing
PerShiftList == IF Printing THEN Report.workersPerShift ELSE ret.value[1][1]
PerShiftVal ==
    IF Printing THEN Report.workersPerShiftViolations ELSE ret.value[1][2]
PreferenceSeen == ret.op = "countShiftPreferenceViolations" \/ Printing
PreferenceVal == IF Printing THEN Report.shiftPreference ELSE ret.value[1]
CompetenceSeen == ret.op = "countCompetenceViolations" \/ Printing
CompetenceVal == IF Printing THEN Report.competence ELSE ret.value[1]

\* the sum of f(p) over the positions p of a sub-sequence
RECURSIVE SumPositions(_, _)
SumPositions(f(_), p) ==
    IF p >= SubSeqLen THEN 0 ELSE f(p) + SumPositions(f, p + 1)

\* C1: getCost on a roster whose length differs from length() raises the
\* size error, before the decomposition or any counter runs, and returns no
\* cost.
C1_CostRejectsWrongSize ==
    (ret.op = "getCost" /\ Len(schedule) # NumWorkers * 3 * 7 * weeks)
        => /\ ret.raised = "ValueError"
           /\ ret.calls = << >>
           /\ ret.value = << >>
           /\ firstCost = << >>

C1_Witness ==
    /\ ret.op = "getCost"
    /\ weeks = 1
    /\ Len(schedule) = 211
    /\ ret.raised = "ValueError"

\* C2 (as claimed): getWorkerShifts, called directly or by
\* printScheduleInfo, raises the size error on a mis-sized roster.
C2_DecomposeRejectsWrongSize ==
    ((ret.op = "getWorkerShifts" \/ Printing) /\ ~Sized)
        => ret.raised = "ValueError"

\* C3: the cost of a roster of the right size is hardConstraintPenalty times
\* the sum of the consecutive, workers-per-shift, shifts-per-week and
\* competence counts of its decomposition, plus the unweighted
\* shift-preference count.
C3_CostIsWeightedSum ==
    (ret.op = "getCost" /\ Sized)
        => LET d == getWorkerShifts(schedule)
           IN  ret.value =
                 <<hardConstraintPenalty
                       * (countConsecutiveShiftViolations(d)
                          + countWorkersPerShiftViolations(d)[2]
                          + countShiftsPerWeekViolations(d)[2]
                          + countCompetenceViolations(d))
                   + countShiftPreferenceViolations(d)>>

C3_Witness ==
    /\ ret.op = "getCost"
    /\ Sized
    /\ hardConstraintPenalty = 10
    /\ countShiftPreferenceViolations(getWorkerShifts(schedule)) > 0
    /\ countCompetenceViolations(getWorkerShifts(schedule)) > 0
    /\ ret.raised = "none"

\* C4: no call changes the configuration or the roster, and every getCost
\* returns what the first getCost on that roster returned.
C4_CallsLeaveStateAlone ==
    [][/\ config' = config
       /\ schedule' = schedule
       /\ (ret'.op = "getCost" => ret'.value = firstCost')]_vars

C4_Witness ==
    /\ ret.op = "getCost"
    /\ between
    /\ firstCost # << >>
    /\ ret.value = firstCost

MinOfSlot(p) == shiftMin[(p % 3) + 1]

\* C5: on the all-zero roster every counter is 0 except workers-per-shift,
\* which is the sum of shiftMin over all slots (35 for one week), and the
\* cost is hardConstraintPenalty times that sum.
C5_AllZeroRoster ==
    AllZero =>
        /\ ConsecutiveSeen => ConsecutiveVal = 0
        /\ WeeklySeen => WeeklyVal = 0
        /\ PreferenceSeen => PreferenceVal = 0
        /\ CompetenceSeen => CompetenceVal = 0
        /\ PerShiftSeen =>
              /\ PerShiftVal = SumPositions(MinOfSlot, 0)
              /\ weeks = 1 => PerShiftVal = 35
        /\ ret.op = "getCost" =>
              ret.value = <<hardConstraintPenalty * SumPositions(MinOfSlot, 0)>>

C5_Witness ==
    /\ AllZero
    /\ ret.op = "getCost"
    /\ weeks = 1
    /\ hardConstraintPenalty = 10
    /\ ret.value = <<350>>

ExcessOfSlot(p) == NumWorkers - shiftMax[(p % 3) + 1]

MaskZeros ==
    Cardinality({m \in WorkerIdx \X (0..(3 * (shiftsPerWeek \div shiftPerDay) - 1)) :
                    shiftPreference[m[1] + 1][(m[2] % 3) + 1] = 0})

\* C6: on the all-ones roster the consecutive count is (sub-sequence length
\* - 1) per worker (200 for one week), the workers-per-shift count is the sum
\* over the slots of (number of workers - shiftMax), and the preference count
\* is the number of 0 entries of the workers' preference masks, a mask being
\* the preference vector repeated shiftsPerWeek / shiftPerDay times.
C6_AllOnesRoster ==
    AllOnes =>
        /\ ConsecutiveSeen =>
              /\ ConsecutiveVal = NumWorkers * (SubSeqLen - 1)
              /\ weeks = 1 => ConsecutiveVal = 200
        /\ PerShiftSeen => PerShiftVal = SumPositions(ExcessOfSlot, 0)
        /\ PreferenceSeen => PreferenceVal = MaskZeros

C6_Witness ==
    /\ AllOnes
    /\ Printing
    /\ weeks = 1
    /\ Report.consecutive = 200
    /\ Report.shiftPreference = 98

SlotTotal(p) == Cardinality({w \in WorkerIdx : At(w, p) = 1})

SlotPenalty(p) ==
    LET total == SlotTotal(p)
        lo == shiftMin[(p % 3) + 1]
        hi == shiftMax[(p % 3) + 1]
    IN  IF total > hi THEN total - hi
        ELSE IF total < lo THEN lo - total ELSE 0

\* C9: the per-slot list holds, for each slot, the number of workers with a
\* 1 there; the violation total adds the excess over shiftMax or the
\* shortfall under shiftMin of each slot; the slot totals, and the weekly
\* totals, sum to the number of 1s of the roster.
C9_WorkersPerShift ==
    /\ (Sized /\ PerShiftSeen)
          => /\ Len(PerShiftList) = SubSeqLen
             /\ \A p \in Positions : PerShiftList[p + 1] = SlotTotal(p)
             /\ PerShiftVal = SumPositions(SlotPenalty, 0)
             /\ sum(PerShiftList) = Ones
    /\ (Sized /\ WeeklySeen) => sum(WeeklyList) = Ones

C9_Witness ==
    /\ ret.op = "countWorkersPerShiftViolations"
    /\ Sized
    /\ \E p \in Positions : SlotTotal(p) > shiftMax[(p % 3) + 1]
    /\ \E p \in Positions : SlotTotal(p) = shiftMax[(p % 3) + 1]
    /\ \E p \in Positions : SlotTotal(p) < shiftMin[(p % 3) + 1]
    /\ ret.value[1][2] = SumPositions(SlotPenalty, 0)

\* C10: the consecutive count is the number of adjacent positions (k, k + 1)
\* of one worker's sub-sequence that both hold 1, day and week boundaries
\* included; the last slot of a worker and the first slot of the next one
\* are no such pair.
C10_ConsecutivePairs ==
    (Sized /\ ConsecutiveSeen)
        => ConsecutiveVal =
             Cardinality({m \in WorkerIdx \X (0..(SubSeqLen - 2)) :
                             At(m[1], m[2]) = 1 /\ At(m[1], m[2] + 1) = 1})

C10_Witness ==
    /\ ret.op = "countConsecutiveShiftViolations"
    /\ Sized
    /\ At(0, SubSeqLen - 1) = 1
    /\ At(1, 0) = 1
    /\ ret.value[1] = 0

====
